---- MODULE Spec2Model ----
(***************************************************************************)
(* A model of the research agent server: the ResearchTaskManager handlers  *)
(* (research_task_manager.py) over the in-memory task store, and the       *)
(* ResearchAgent.invoke result parsing (research_agent.py).                *)
(*                                                                         *)
(* Texts are sequences of one-character strings.  A nullable Python value  *)
(* is a sequence of length at most one: None is <<>>, a value v is <<v>>.  *)
(***************************************************************************)
EXTENDS Integers, Sequences, FiniteSets, TLC

\* ------------------------------------------------------------------ bounds
NumHandlers == 2        \* concurrently running request handlers
MaxCalls == 2           \* handler calls started in one behaviour
MaxPieces == 4          \* pieces a raw pipeline text is assembled from

Handlers == 1..NumHandlers
TaskIds == {"A", "B"}

None == <<>>
Some(v) == <<v>>

\* ------------------------------------------------- Python string primitives
\* The literal "Sources:" of research_agent.py, as characters.
Marker == <<"S", "o", "u", "r", "c", "e", "s", ":">>

\* The characters str.strip() removes (the ones the model's alphabet has).
Whitespace == {" ", "\n", "\t", "\r"}

\* s[i:j] with 1-based inclusive bounds; empty when j < i.
Slice(s, i, j) == [k \in 1..(j - i + 1) |-> s[i + k - 1]]

\* Whether sub occurs in s at position i.
OccursAt(s, sub, i) ==
    /\ i >= 1
    /\ i + Len(sub) - 1 <= Len(s)
    /\ \A k \in 1..Len(sub) : s[i + k - 1] = sub[k]

\* str.find, 1-based: the first position of sub in s, 0 when there is none.
RECURSIVE FindFrom(_, _, _)
FindFrom(s, sub, i) ==
    IF i + Len(sub) - 1 > Len(s) THEN 0
    ELSE IF OccursAt(s, sub, i) THEN i
    ELSE FindFrom(s, sub, i + 1)

Find(s, sub) == FindFrom(s, sub, 1)

\* sub in s
Contains(s, sub) == Find(s, sub) # 0

\* s.split(sep, 1) for a separator that occurs in s: <<head, tail>>.
SplitOnce(s, sep) ==
    LET i == Find(s, sep)
    IN  <<Slice(s, 1, i - 1), Slice(s, i + Len(sep), Len(s))>>

\* str.lstrip / str.rstrip / str.strip
RECURSIVE LStrip(_)
LStrip(s) ==
    IF s # <<>> /\ Head(s) \in Whitespace THEN LStrip(Tail(s)) ELSE s

RECURSIVE RStrip(_)
RStrip(s) ==
    IF s # <<>> /\ s[Len(s)] \in Whitespace
    THEN RStrip(Slice(s, 1, Len(s) - 1))
    ELSE s

Strip(s) == RStrip(LStrip(s))

\* s.split("\n"): the pieces between newlines, empty pieces kept.
RECURSIVE SplitLines(_)
SplitLines(s) ==
    LET i == Find(s, <<"\n">>)
    IN  IF i = 0 THEN <<s>>
        ELSE <<Slice(s, 1, i - 1)>> \o SplitLines(Slice(s, i + 1, Len(s)))

\* [x.strip() for x in lines if x.strip()]
RECURSIVE StripNonEmpty(_)
StripNonEmpty(lines) ==
    IF lines = <<>> THEN <<>>
    ELSE LET x == Strip(Head(lines))
         IN  (IF x # <<>> THEN <<x>> ELSE <<>>) \o StripNonEmpty(Tail(lines))

\* "\n".join(lines)
RECURSIVE JoinLines(_)
JoinLines(lines) ==
    IF lines = <<>> THEN <<>>
    ELSE IF Len(lines) = 1 THEN lines[1]
    ELSE lines[1] \o <<"\n">> \o JoinLines(Tail(lines))

\* ------------------------------------------------------ ResearchAgent.invoke
\* ResearchResult(content, sources, error); the uuid4 id is only logged.
ResearchResult(content, sources, error) ==
    [content |-> content, sources |-> sources, error |-> error]

\* As ParseResponse, but splitting at the last marker (rsplit for split).
LastMarker(text) ==
    CHOOSE i \in 1..Len(text) :
        /\ OccursAt(text, Marker, i)
        /\ \A j \in 1..Len(text) : OccursAt(text, Marker, j) => j <= i

ParseResponseLastMarker(text) ==
    IF Contains(text, Marker)
    THEN LET i == LastMarker(text)
         IN  ResearchResult(Some(Strip(Slice(text, 1, i - 1))),
                 Some(StripNonEmpty(SplitLines(
                     Strip(Slice(text, i + Len(Marker), Len(text)))))),
                 None)
    ELSE ResearchResult(Some(text), Some(<<>>), None)

\* The try body of invoke on the text response.raw of the pipeline.
ParseResponse(text) ==
    IF Contains(text, Marker)
    THEN LET halves == SplitOnce(text, Marker)
         IN  ResearchResult(Some(Strip(halves[1])),
                            Some(StripNonEmpty(SplitLines(Strip(halves[2])))),
                            None)
    ELSE ResearchResult(Some(text), Some(<<>>), None)


\* f"Error performing research: {str(e)}", the prefix.
ErrorPrefix ==
    <<"E", "r", "r", "o", "r", " ", "p", "e", "r", "f", "o", "r", "m", "i", "n",
      "g", " ", "r", "e", "s", "e", "a", "r", "c", "h", ":", " ">>

\* What research_crew.kickoff does: it raises an exception whose str() is
\* text, or it returns a response whose raw is text.
Raises(text) == [raised |-> TRUE, text |-> text]
Returns(text) == [raised |-> FALSE, text |-> text]
NoOutcome == [raised |-> FALSE, text |-> <<>>]

\* As AgentInvoke, but the except body puts the message in content.
AgentInvokeErrorAsContent(outcome) ==
    IF outcome.raised
    THEN ResearchResult(Some(ErrorPrefix \o outcome.text), None, None)
    ELSE ParseResponse(outcome.text)

\* invoke: the try body on a returned response, the except body on an
\* exception.  Nothing is propagated to the caller.
AgentInvoke(outcome) ==
    IF outcome.raised
    THEN ResearchResult(None, None, Some(ErrorPrefix \o outcome.text))
    ELSE ParseResponse(outcome.text)

\* SUPPORTED_CONTENT_TYPES
SUPPORTED_CONTENT_TYPES == <<"text", "text/plain">>

\* ------------------------------------------------------------- wire types
TextPart(text) == [type |-> "text", text |-> text]
FilePart == [type |-> "file", text |-> <<>>]
Artifact(parts) == [parts |-> parts]
TaskStatus(state, message) == [state |-> state, message |-> message]
Message(role, parts) == [role |-> role, parts |-> parts]
Task(id, status, artifacts) ==
    [id |-> id, status |-> status, artifacts |-> artifacts]
TaskSendParams(id, modes, message) ==
    [id |-> id, acceptedOutputModes |-> modes, message |-> message]

\* What a handler call gives back to the server.
NoResponse == [kind |-> "none", error |-> "", result |-> None]
IncompatibleTypesError ==
    [kind |-> "error", error |-> "ContentTypeNotSupportedError", result |-> None]
Raised(error) == [kind |-> "raised", error |-> error, result |-> None]
SendTaskResponse(task) == [kind |-> "task", error |-> "", result |-> Some(task)]
ReturnedNone == [kind |-> "returned", error |-> "", result |-> None]

TaskNotFound == "ValueError: Task not found"
OnlyTextParts == "ValueError: Only text parts are supported"

\* utils.are_modalities_compatible: whether the client accepts one of the
\* server's content types.
AreModalitiesCompatible(accepted, supported) ==
    \E i \in DOMAIN accepted : \E j \in DOMAIN supported : accepted[i] = supported[j]

\* ------------------------------------------------------------ input sets
Query == <<"q">>
PngOnly == <<"image/png">>
TextOnly == <<"text">>
PlainOrPng == <<"text/plain", "image/png">>
ModeChoices == {PlainOrPng, PngOnly}
PartChoices == {TextPart(Query), FilePart}

Requests ==
    { TaskSendParams(id, modes, Message("user", <<part>>)) :
        id \in TaskIds, modes \in ModeChoices, part \in PartChoices }

NoRequest == TaskSendParams("", <<>>, Message("", <<>>))

Boom == <<"b", "o", "o", "m">>
PlainAnswer == <<"o", "k">>
CitedAnswer ==
    <<"A", " ", "B", "\n", "S", "o", "u", "r", "c", "e", "s", ":", "\n",
      "h", "t", "t", "p", ":", "/", "/", "x", "\n",
      "h", "t", "t", "p", ":", "/", "/", "y">>
Outcomes == {Raises(Boom), Returns(PlainAnswer), Returns(CitedAnswer)}

\* The arguments of direct _update_store calls.
AgentMessage == Message("agent", <<TextPart(<<"m">>)>>)
ArtifactX == Artifact(<<TextPart(<<"x">>)>>)
ArtifactY == Artifact(<<TextPart(<<"y">>)>>)
StoreArtifacts == {ArtifactX, ArtifactY}
StatusChoices ==
    {TaskStatus("working", None), TaskStatus("completed", Some(AgentMessage))}
ArtifactChoices == {None, Some(<<ArtifactX>>), Some(<<ArtifactY, ArtifactX>>)}
StoreParams ==
    { TaskSendParams(id, TextOnly, Message("user", <<TextPart(Query)>>)) :
        id \in TaskIds }

NoUpdate == [task_id |-> "", status |-> TaskStatus("", None), artifacts |-> None]
UpdateArgs(task_id, status, artifacts) ==
    [task_id |-> task_id, status |-> status, artifacts |-> artifacts]

\* ----------------------------------------------------------------- state
VARIABLES
    tasks,          \* self.tasks: task id -> Task (a dict)
    task_messages,  \* the message history of each task
    lock,           \* self.lock: the handler holding it, 0 when free
    pc,             \* where each handler is
    op,             \* the operation each handler's current call is
    req,            \* the TaskSendParams of each handler's current call
    upd,            \* the arguments of each handler's _update_store call
    result,         \* the ResearchResult each handler got from agent.invoke
    pipeline,       \* what the pipeline did in each handler's call
    response,       \* what each handler's last call gave back
    ncalls,         \* calls each handler has started
    invoked,        \* whether the handler's current call reached agent.invoke
    updates,        \* per task id: send-task calls whose store update returned
    sent,           \* per task id: artifacts passed to direct update calls
                    \* that did not end in not-found
    raw,            \* a pipeline text (parsing specification)
    parsed          \* None, or the result of parsing raw

handlerVars == <<pc, op, req, upd, result, pipeline, response, ncalls, invoked>>
storeVars == <<tasks, task_messages, lock>>
ghostVars == <<updates, sent>>
parseVars == <<raw, parsed>>
vars == <<storeVars, handlerVars, ghostVars, parseVars>>

EmptyDict == [t \in {} |-> TRUE]

\* d[k] = v on a dict.
DictSet(d, k, v) == [t \in DOMAIN d \cup {k} |-> IF t = k THEN v ELSE d[t]]

RECURSIVE SumCalls(_)
SumCalls(hs) ==
    IF hs = {} THEN 0
    ELSE LET h == CHOOSE x \in hs : TRUE IN ncalls[h] + SumCalls(hs \ {h})

TotalCalls == SumCalls(Handlers)

\* How many times artifact a occurs in the list arts.
Occurrences(arts, a) == Cardinality({i \in DOMAIN arts : arts[i] = a})

\* bag with each artifact of a nullable list counted sign times.
Counted(bag, artifacts, sign) ==
    [a \in StoreArtifacts |->
        bag[a] + sign * (IF artifacts = None THEN 0
                         ELSE Occurrences(artifacts[1], a))]

InitHandlers ==
    /\ pc = [h \in Handlers |-> "idle"]
    /\ op = [h \in Handlers |-> "none"]
    /\ req = [h \in Handlers |-> NoRequest]
    /\ upd = [h \in Handlers |-> NoUpdate]
    /\ result = [h \in Handlers |-> ResearchResult(None, None, None)]
    /\ pipeline = [h \in Handlers |-> NoOutcome]
    /\ response = [h \in Handlers |-> NoResponse]
    /\ ncalls = [h \in Handlers |-> 0]
    /\ invoked = [h \in Handlers |-> FALSE]

InitStore ==
    /\ tasks = EmptyDict
    /\ task_messages = EmptyDict
    /\ lock = 0
    /\ updates = [t \in TaskIds |-> 0]
    /\ sent = [t \in TaskIds |-> [a \in StoreArtifacts |-> 0]]

Init ==
    /\ InitStore
    /\ InitHandlers
    /\ raw = <<>>
    /\ parsed = None

\* A handler call begins: what every entry point resets.  The handlers are
\* interchangeable, so they take their first calls in the order of their
\* numbers.
BeginCall(h, kind) ==
    /\ pc[h] = "idle"
    /\ TotalCalls < MaxCalls
    /\ IF h = 1 THEN TRUE ELSE ncalls[h - 1] > 0
    /\ ncalls' = [ncalls EXCEPT ![h] = @ + 1]
    /\ op' = [op EXCEPT ![h] = kind]
    /\ invoked' = [invoked EXCEPT ![h] = FALSE]

\* A handler call goes on past its first check, to await upsert_task.
GoOn(h, params) ==
    /\ pc' = [pc EXCEPT ![h] = "upsert_acquire"]
    /\ req' = [req EXCEPT ![h] = params]
    /\ response' = [response EXCEPT ![h] = NoResponse]

\* A handler call ends with resp: its locals are gone.
EndCall(h, resp) ==
    /\ pc' = [pc EXCEPT ![h] = "idle"]
    /\ response' = [response EXCEPT ![h] = resp]
    /\ req' = [req EXCEPT ![h] = NoRequest]
    /\ upd' = [upd EXCEPT ![h] = NoUpdate]
    /\ result' = [result EXCEPT ![h] = ResearchResult(None, None, None)]
    /\ pipeline' = [pipeline EXCEPT ![h] = NoOutcome]

\* ------------------------------------------------ InMemoryTaskManager.upsert_task
\* async with self.lock, entered.
UpsertAcquire(h) ==
    /\ pc[h] = "upsert_acquire"
    /\ lock = 0
    /\ lock' = h
    /\ pc' = [pc EXCEPT ![h] = "upsert_body"]
    /\ UNCHANGED <<tasks, task_messages, op, req, upd, result, pipeline,
                   response, ncalls, invoked, ghostVars, parseVars>>

\* The store after the body of upsert_task on params: a new record with
\* status submitted and the inbound message as its history, or the message
\* appended to the history of the record there is.
UpsertedTasks(params) ==
    IF params.id \in DOMAIN tasks THEN tasks
    ELSE DictSet(tasks, params.id,
                 Task(params.id, TaskStatus("submitted", None), None))

UpsertedMessages(params) ==
    IF params.id \in DOMAIN tasks
    THEN [task_messages EXCEPT ![params.id] = Append(@, params.message)]
    ELSE DictSet(task_messages, params.id, <<params.message>>)

\* The body of upsert_task and the release of the lock; the caller goes on:
\* on_send_task to _invoke, on_send_task_subscribe and a direct call return.
UpsertBody(h) ==
    /\ pc[h] = "upsert_body"
    /\ tasks' = UpsertedTasks(req[h])
    /\ task_messages' = UpsertedMessages(req[h])
    /\ lock' = 0
    /\ IF op[h] = "send"
       THEN /\ pc' = [pc EXCEPT ![h] = "invoke"]
            /\ UNCHANGED <<response, req, upd, result, pipeline>>
       ELSE EndCall(h, IF op[h] = "subscribe" THEN ReturnedNone
                       ELSE SendTaskResponse(tasks'[req[h].id]))
    /\ UNCHANGED <<op, ncalls, invoked, ghostVars, parseVars>>

\* ------------------------------------------- ResearchTaskManager.on_send_task
\* The modality check; an incompatible request is answered at once, a
\* compatible one goes on to await upsert_task.
SendTaskStartNoCheck(h, r) ==
    /\ BeginCall(h, "send")
    /\ GoOn(h, r)
    /\ UNCHANGED <<storeVars, upd, result, pipeline, ghostVars, parseVars>>

SendTaskStart(h, r) ==
    /\ BeginCall(h, "send")
    /\ IF ~AreModalitiesCompatible(r.acceptedOutputModes, SUPPORTED_CONTENT_TYPES)
       THEN /\ response' = [response EXCEPT ![h] = IncompatibleTypesError]
            /\ UNCHANGED <<pc, req>>
       ELSE GoOn(h, r)
    /\ UNCHANGED <<storeVars, upd, result, pipeline, ghostVars, parseVars>>

\* --------------------------------- ResearchTaskManager.on_send_task_subscribe
\* _validate_request, then await upsert_task; the handler then returns None.
ValidateRequest(r) ==
    IF AreModalitiesCompatible(r.acceptedOutputModes, SUPPORTED_CONTENT_TYPES)
    THEN None
    ELSE Some(IncompatibleTypesError)

SubscribeStart(h, r) ==
    /\ BeginCall(h, "subscribe")
    /\ IF ValidateRequest(r) # None
       THEN /\ response' = [response EXCEPT ![h] = ValidateRequest(r)[1]]
            /\ UNCHANGED <<pc, req>>
       ELSE GoOn(h, r)
    /\ UNCHANGED <<storeVars, upd, result, pipeline, ghostVars, parseVars>>

\* ----------------------------------------------- ResearchTaskManager._invoke
\* _get_user_query: the text of the first part, None when it raises.
GetUserQuery(params) ==
    LET part == params.message.parts[1]
    IN  IF part.type # "text" THEN None ELSE Some(part.text)

\* Python truthiness of a nullable text or list.
Truthy(v) == v # None /\ v[1] # <<>>

SourcesHeader ==
    <<"\n", "\n", "S", "o", "u", "r", "c", "e", "s", ":", "\n">>

\* As ResultParts, but the sources go into a text part of their own.
ResultPartsSplit(res) ==
    IF ~Truthy(res.error)
    THEN IF Truthy(res.sources)
         THEN <<TextPart(res.content[1]),
                TextPart(SourcesHeader \o JoinLines(res.sources[1]))>>
         ELSE <<TextPart(res.content[1])>>
    ELSE <<TextPart(res.error[1])>>

\* The parts _invoke builds from the result of agent.invoke.
ResultParts(res) ==
    IF ~Truthy(res.error)
    THEN <<TextPart(IF Truthy(res.sources)
                    THEN res.content[1] \o SourcesHeader \o JoinLines(res.sources[1])
                    ELSE res.content[1])>>
    ELSE <<TextPart(res.error[1])>>

\* As InvokeBegin, but the store lock is taken around the call of the agent.
InvokeBeginLocked(h) ==
    /\ pc[h] = "invoke"
    /\ IF GetUserQuery(req[h]) = None
       THEN /\ EndCall(h, Raised(OnlyTextParts))
            /\ UNCHANGED <<invoked, lock>>
       ELSE /\ lock = 0
            /\ lock' = h
            /\ pc' = [pc EXCEPT ![h] = "research"]
            /\ invoked' = [invoked EXCEPT ![h] = TRUE]
            /\ UNCHANGED <<response, req, upd, result, pipeline>>
    /\ UNCHANGED <<tasks, task_messages, op, ncalls, ghostVars, parseVars>>

\* _get_user_query, then the call of agent.invoke is entered; a first part
\* that is no text part ends the handler with ValueError.
InvokeBegin(h) ==
    /\ pc[h] = "invoke"
    /\ IF GetUserQuery(req[h]) = None
       THEN /\ EndCall(h, Raised(OnlyTextParts))
            /\ UNCHANGED invoked
       ELSE /\ pc' = [pc EXCEPT ![h] = "research"]
            /\ invoked' = [invoked EXCEPT ![h] = TRUE]
            /\ UNCHANGED <<response, req, upd, result, pipeline>>
    /\ UNCHANGED <<storeVars, op, ncalls, ghostVars, parseVars>>

\* As InvokeEnd, but the status passed on is working.
InvokeEndWorking(h, outcome) ==
    /\ pc[h] = "research"
    /\ pipeline' = [pipeline EXCEPT ![h] = outcome]
    /\ result' = [result EXCEPT ![h] = AgentInvoke(outcome)]
    /\ upd' = [upd EXCEPT ![h] =
           UpdateArgs(req[h].id, TaskStatus("working", None),
                      Some(<<Artifact(ResultParts(AgentInvoke(outcome)))>>))]
    /\ pc' = [pc EXCEPT ![h] = "update_acquire"]
    /\ UNCHANGED <<storeVars, op, req, response, ncalls, invoked,
                   ghostVars, parseVars>>

\* agent.invoke returns (the pipeline having raised or returned), the parts
\* are built and _update_store is called with status completed.
InvokeEnd(h, outcome) ==
    /\ pc[h] = "research"
    /\ pipeline' = [pipeline EXCEPT ![h] = outcome]
    /\ result' = [result EXCEPT ![h] = AgentInvoke(outcome)]
    /\ upd' = [upd EXCEPT ![h] =
           UpdateArgs(req[h].id, TaskStatus("completed", None),
                      Some(<<Artifact(ResultParts(AgentInvoke(outcome)))>>))]
    /\ pc' = [pc EXCEPT ![h] = "update_acquire"]
    /\ UNCHANGED <<storeVars, op, req, response, ncalls, invoked,
                   ghostVars, parseVars>>

\* ----------------------------------------- ResearchTaskManager._update_store
\* As UpdateAcquire, but without waiting for the lock to be free.
UpdateAcquireNoWait(h) ==
    /\ pc[h] = "update_acquire"
    /\ lock' = h
    /\ pc' = [pc EXCEPT ![h] = "update_lookup"]
    /\ UNCHANGED <<tasks, task_messages, op, req, upd, result, pipeline,
                   response, ncalls, invoked, ghostVars, parseVars>>

\* async with self.lock, entered.
UpdateAcquire(h) ==
    /\ pc[h] = "update_acquire"
    /\ lock = 0
    /\ lock' = h
    /\ pc' = [pc EXCEPT ![h] = "update_lookup"]
    /\ UNCHANGED <<tasks, task_messages, op, req, upd, result, pipeline,
                   response, ncalls, invoked, ghostVars, parseVars>>

\* As UpdateLookup, but a missing record is created (setdefault for []).
UpdateLookupCreates(h) ==
    /\ pc[h] = "update_lookup"
    /\ tasks' = DictSet(tasks, upd[h].task_id,
                        Task(upd[h].task_id, upd[h].status,
                             IF upd[h].task_id \in DOMAIN tasks
                             THEN tasks[upd[h].task_id].artifacts ELSE None))
    /\ task_messages' = IF upd[h].task_id \in DOMAIN tasks THEN task_messages
                        ELSE DictSet(task_messages, upd[h].task_id, <<>>)
    /\ pc' = [pc EXCEPT ![h] = "update_message"]
    /\ UNCHANGED <<lock, response, req, upd, result, pipeline, op, ncalls,
                   invoked, ghostVars, parseVars>>

\* task = self.tasks[task_id]: KeyError becomes ValueError and the lock is
\* released; otherwise task.status = status.
UpdateLookup(h) ==
    /\ pc[h] = "update_lookup"
    /\ IF upd[h].task_id \notin DOMAIN tasks
       THEN /\ lock' = 0
            /\ EndCall(h, Raised(TaskNotFound))
            /\ sent' = IF op[h] = "update"
                       THEN [sent EXCEPT ![upd[h].task_id] =
                                Counted(@, upd[h].artifacts, -1)]
                       ELSE sent
            /\ UNCHANGED tasks
       ELSE /\ tasks' = [tasks EXCEPT ![upd[h].task_id].status = upd[h].status]
            /\ pc' = [pc EXCEPT ![h] = "update_message"]
            /\ UNCHANGED <<lock, response, req, upd, result, pipeline, sent>>
    /\ UNCHANGED <<task_messages, op, ncalls, invoked, updates, parseVars>>

\* if status.message is not None: self.task_messages[task_id].append(...)
UpdateMessage(h) ==
    /\ pc[h] = "update_message"
    /\ task_messages' =
           IF upd[h].status.message # None
           THEN [task_messages EXCEPT
                    ![upd[h].task_id] = Append(@, upd[h].status.message[1])]
           ELSE task_messages
    /\ pc' = [pc EXCEPT ![h] = "update_artifacts"]
    /\ UNCHANGED <<tasks, lock, op, req, upd, result, pipeline, response,
                   ncalls, invoked, ghostVars, parseVars>>

\* As ExtendedArtifacts, but assigning the new list (= for extend).
ReplacedArtifacts(old, new) == IF new # None THEN new ELSE old

\* task.artifacts after the artifacts block of _update_store.
ExtendedArtifacts(old, new) ==
    IF new # None
    THEN Some((IF old = None THEN <<>> ELSE old[1]) \o new[1])
    ELSE old

\* As UpdateArtifacts, but every record holds the one same list (a shared
\* default list).
UpdateArtifactsShared(h) ==
    /\ pc[h] = "update_artifacts"
    /\ tasks' = [t \in DOMAIN tasks |->
                    [tasks[t] EXCEPT !.artifacts =
                        IF upd[h].artifacts # None
                        THEN Some((IF @ = None THEN <<>> ELSE @[1])
                                  \o upd[h].artifacts[1])
                        ELSE @]]
    /\ pc' = [pc EXCEPT ![h] = "update_return"]
    /\ UNCHANGED <<task_messages, lock, op, req, upd, result, pipeline,
                   response, ncalls, invoked, ghostVars, parseVars>>

UpdateArtifacts(h) ==
    /\ pc[h] = "update_artifacts"
    /\ tasks' = [tasks EXCEPT ![upd[h].task_id].artifacts =
                    ExtendedArtifacts(@, upd[h].artifacts)]
    /\ pc' = [pc EXCEPT ![h] = "update_return"]
    /\ UNCHANGED <<task_messages, lock, op, req, upd, result, pipeline,
                   response, ncalls, invoked, ghostVars, parseVars>>

\* return task: the lock is released and the caller (_invoke, or a direct
\* caller) gets the record.
UpdateReturn(h) ==
    /\ pc[h] = "update_return"
    /\ lock' = 0
    /\ EndCall(h, SendTaskResponse(tasks[upd[h].task_id]))
    /\ updates' = IF op[h] = "send"
                  THEN [updates EXCEPT ![upd[h].task_id] = @ + 1]
                  ELSE updates
    /\ UNCHANGED <<tasks, task_messages, op, ncalls, invoked, sent, parseVars>>

\* ------------------------------------------------------- the server's runs
Next ==
    \E h \in Handlers :
        \/ \E r \in Requests : SendTaskStart(h, r)
        \/ \E r \in Requests : SubscribeStart(h, r)
        \/ UpsertAcquire(h)
        \/ UpsertBody(h)
        \/ InvokeBegin(h)
        \/ \E o \in Outcomes : InvokeEnd(h, o)
        \/ UpdateAcquire(h)
        \/ UpdateLookup(h)
        \/ UpdateMessage(h)
        \/ UpdateArtifacts(h)
        \/ UpdateReturn(h)

Spec == Init /\ [][Next]_vars


\* --------------------------------------------- the store under direct calls
\* The task store as its callers may use it: upsert_task and _update_store
\* called with any arguments, from concurrent handlers.
UpsertCall(h, params) ==
    /\ BeginCall(h, "upsert")
    /\ GoOn(h, params)
    /\ UNCHANGED <<storeVars, upd, result, pipeline, ghostVars, parseVars>>

\* _update_store is called; sent records the artifacts passed (a call that
\* ends in not-found takes its own off again).
UpdateCall(h, task_id, status, artifacts) ==
    /\ BeginCall(h, "update")
    /\ upd' = [upd EXCEPT ![h] = UpdateArgs(task_id, status, artifacts)]
    /\ pc' = [pc EXCEPT ![h] = "update_acquire"]
    /\ response' = [response EXCEPT ![h] = NoResponse]
    /\ sent' = [sent EXCEPT ![task_id] = Counted(@, artifacts, 1)]
    /\ UNCHANGED <<storeVars, req, result, pipeline, updates, parseVars>>

\* The store after upsert_task was called once for each identifier of ids.
StoreInit ==
    /\ \E ids \in SUBSET TaskIds :
          /\ tasks = [t \in ids |-> Task(t, TaskStatus("submitted", None), None)]
          /\ task_messages =
                 [t \in ids |-> <<Message("user", <<TextPart(Query)>>)>>]
    /\ lock = 0
    /\ updates = [t \in TaskIds |-> 0]
    /\ sent = [t \in TaskIds |-> [a \in StoreArtifacts |-> 0]]
    /\ InitHandlers
    /\ raw = <<>>
    /\ parsed = None

StoreNext ==
    \E h \in Handlers :
        \/ \E params \in StoreParams : UpsertCall(h, params)
        \/ \E t \in TaskIds, st \in StatusChoices, arts \in ArtifactChoices :
              UpdateCall(h, t, st, arts)
        \/ UpsertAcquire(h)
        \/ UpsertBody(h)
        \/ UpdateAcquire(h)
        \/ UpdateLookup(h)
        \/ UpdateMessage(h)
        \/ UpdateArtifacts(h)
        \/ UpdateReturn(h)

StoreSpec == StoreInit /\ [][StoreNext]_vars

\* ------------------------------------------------- parsing pipeline texts
\* Texts put together from at most MaxPieces of these pieces.
MarkerNoColon == <<"S", "o", "u", "r", "c", "e", "s">>
Pieces == {<<"a">>, <<" ">>, <<"\n">>, <<"\r">>, <<":">>, Marker, MarkerNoColon}

RECURSIVE TextsOf(_)
TextsOf(n) ==
    IF n = 0 THEN {<<>>}
    ELSE LET shorter == TextsOf(n - 1)
         IN  shorter \cup {t \o piece : t \in shorter, piece \in Pieces}

ParseInit ==
    /\ InitStore
    /\ InitHandlers
    /\ raw \in TextsOf(MaxPieces) \cup {CitedAnswer}
    /\ parsed = None

\* invoke on a pipeline that returns raw.
Parse ==
    /\ parsed = None
    /\ parsed' = Some(AgentInvoke(Returns(raw)))
    /\ UNCHANGED <<storeVars, handlerVars, ghostVars, raw>>

ParseNext == Parse

ParseSpec == ParseInit /\ [][ParseNext]_vars


\* ================================================================ claims
ArtifactsOf(t) == IF tasks[t].artifacts = None THEN <<>> ELSE tasks[t].artifacts[1]

IsPrefix(s, t) == Len(s) <= Len(t) /\ \A i \in 1..Len(s) : s[i] = t[i]

\* An artifact of exactly one part, a text part.
OneTextPart(artifact) ==
    Len(artifact.parts) = 1 /\ artifact.parts[1].type = "text"

\* Where a handler reads or writes the store.
StoreAccess ==
    {"upsert_body", "update_lookup", "update_message", "update_artifacts",
     "update_return"}

\* The status is replaced and the artifacts of the same update are still
\* to be appended.
PartialUpdate(h) == pc[h] \in {"update_message", "update_artifacts"}

\* C1: while an update has replaced a status and not yet appended its
\* artifacts, its handler holds the store lock and no other handler is at a
\* place where it reads or writes the store.
C1_UpdateIsAtomic ==
    \A h \in Handlers :
        PartialUpdate(h) =>
            /\ lock = h
            /\ \A g \in Handlers \ {h} : pc[g] \notin StoreAccess

\* Two updates on the same task at once: one in the middle of its writes,
\* the other kept waiting for the lock.
C1_Witness ==
    \E h, g \in Handlers :
        /\ h # g
        /\ pc[h] = "update_artifacts"
        /\ upd[h].artifacts # None
        /\ pc[g] = "update_acquire"
        /\ upd[g].task_id = upd[h].task_id
        /\ upd[h].task_id \in DOMAIN tasks


\* A direct update call on task t is under way.
UpdateInFlight(t) ==
    \E h \in Handlers : op[h] = "update" /\ pc[h] # "idle" /\ upd[h].task_id = t

\* Each task holds exactly the artifacts passed to the update calls on it.
ExactArtifacts ==
    \A t \in DOMAIN tasks :
        ~UpdateInFlight(t) =>
            \A a \in StoreArtifacts : Occurrences(ArtifactsOf(t), a) = sent[t][a]

\* A step of a call that is under way.
CallStep ==
    \E h \in Handlers :
        \/ UpsertAcquire(h)
        \/ UpsertBody(h)
        \/ UpdateAcquire(h)
        \/ UpdateLookup(h)
        \/ UpdateMessage(h)
        \/ UpdateArtifacts(h)
        \/ UpdateReturn(h)

\* While a call is under way some call can take its next step: no call is
\* left waiting for a lock that is never released.
NoStuckCall == (\E h \in Handlers : pc[h] # "idle") => ENABLED CallStep

\* C2: concurrent update calls never leave one another stuck, and once no
\* update on a task is under way its artifact list holds exactly the
\* artifacts passed to the update calls on it, each as often as passed.
C2_UpdatesDoNotMix == ExactArtifacts /\ NoStuckCall

\* Updates on A and on B, by two handlers, have both returned, each task
\* with its own artifacts.
C2_Witness ==
    /\ DOMAIN tasks = {"A", "B"}
    /\ \E h, g \in Handlers :
          /\ op[h] = "update" /\ pc[h] = "idle" /\ response[h].kind = "task"
          /\ op[g] = "update" /\ pc[g] = "idle" /\ response[g].kind = "task"
          /\ response[h].result[1].id = "A"
          /\ response[g].result[1].id = "B"
    /\ ArtifactsOf("A") = <<ArtifactX>>
    /\ ArtifactsOf("B") = <<ArtifactY, ArtifactX>>

\* The task a handler's update call is for, at a step of that call.
UpdateTarget(h) == IF pc[h] = "idle" THEN upd'[h].task_id ELSE upd[h].task_id

\* C3: a step of an update call on an identifier with no record changes no
\* record, message history or artifact list and creates no record, and the
\* call ends, at its lookup, with the not-found error.
C3_UpdateOfMissingTask ==
    [][\A h \in Handlers :
          ( /\ op'[h] = "update"
            /\ ncalls'[h] # ncalls[h] \/ pc'[h] # pc[h]
            /\ UpdateTarget(h) \notin DOMAIN tasks )
          => /\ tasks' = tasks
             /\ task_messages' = task_messages
             /\ pc[h] = "update_lookup" =>
                   /\ pc'[h] = "idle"
                   /\ response'[h] = Raised(TaskNotFound)
             /\ pc'[h] = "idle" => pc[h] = "update_lookup"]_vars

\* An update on B, never upserted, has failed; A's record is as it was.
C3_Witness ==
    \E h \in Handlers :
        /\ op[h] = "update"
        /\ pc[h] = "idle"
        /\ response[h] = Raised(TaskNotFound)
        /\ DOMAIN tasks = {"A"}
        /\ tasks["A"] = Task("A", TaskStatus("submitted", None), None)


Incompatible(r) ==
    ~AreModalitiesCompatible(r.acceptedOutputModes, SUPPORTED_CONTENT_TYPES)

\* C4: the step that takes a send-task request of incompatible output modes
\* answers it with the incompatible-types error and ends the call there:
\* the executor is not invoked and the store is as it was.
C4_IncompatibleRejected ==
    [][\A h \in Handlers : \A r \in Requests :
          (SendTaskStart(h, r) /\ Incompatible(r))
          => /\ response'[h] = IncompatibleTypesError
             /\ pc'[h] = "idle"
             /\ ~invoked'[h]
             /\ tasks' = tasks
             /\ task_messages' = task_messages]_vars

\* A send-task request was rejected on a store that holds a record.
C4_Witness ==
    \E h \in Handlers :
        /\ op[h] = "send"
        /\ pc[h] = "idle"
        /\ response[h] = IncompatibleTypesError
        /\ ~invoked[h]
        /\ DOMAIN tasks # {}

\* The step with which a call of on_send_task that went on to upsert ends.
SendTaskEnds(h) == op[h] = "send" /\ pc[h] # "idle" /\ pc'[h] = "idle"

\* The record of task t is completed and has an artifact of one text part.
CompletedWithText(t) ==
    /\ t \in DOMAIN tasks'
    /\ tasks'[t].status.state = "completed"
    /\ tasks'[t].artifacts # None
    /\ \E i \in DOMAIN tasks'[t].artifacts[1] :
          OneTextPart(tasks'[t].artifacts[1][i])

\* C5 as stated: every call of on_send_task that passed the modality check
\* ends with its record completed and holding a text artifact.
C5_AsStated ==
    [][\A h \in Handlers : SendTaskEnds(h) => CompletedWithText(req[h].id)]_vars

\* C5: a call of on_send_task that passed the modality check, on a message
\* whose first part is a text part, ends only by the return of
\* _update_store, after the executor was invoked, with a task response and
\* its record completed and holding a text artifact; on a first part that
\* is no text part it ends with ValueError and the executor not invoked.
C5_SendTaskCompletes ==
    [][\A h \in Handlers :
          SendTaskEnds(h) =>
              IF GetUserQuery(req[h]) # None
              THEN /\ pc[h] = "update_return"
                   /\ invoked[h]
                   /\ response'[h].kind = "task"
                   /\ CompletedWithText(req[h].id)
              ELSE /\ response'[h] = Raised(OnlyTextParts)
                   /\ ~invoked'[h]]_vars

\* A send-task call has returned a completed task with a text artifact.
C5_Witness ==
    \E h \in Handlers :
        /\ op[h] = "send"
        /\ pc[h] = "idle"
        /\ invoked[h]
        /\ response[h].kind = "task"
        /\ response[h].result[1].status.state = "completed"
        /\ OneTextPart(response[h].result[1].artifacts[1][1])

\* The task record a handler's last call returned.
Returned(h) == response[h].result[1]

\* C6 as stated: a task record returned by on_send_task is completed and
\* carries exactly one artifact, of exactly one text part.
C6_AsStated ==
    \A h \in Handlers :
        (op[h] = "send" /\ response[h].kind = "task") =>
            /\ Returned(h).status.state = "completed"
            /\ Returned(h).artifacts # None
            /\ Len(Returned(h).artifacts[1]) = 1
            /\ OneTextPart(Returned(h).artifacts[1][1])

\* C6: a task record returned by on_send_task is completed and carries one
\* artifact, of exactly one text part, for each send-task call completed on
\* its identifier up to then, the last being the one built for this call.
C6_ReturnedTask ==
    /\ \A h \in Handlers :
          (op[h] = "send" /\ response[h].kind = "task") =>
              /\ Returned(h).status.state = "completed"
              /\ Returned(h).artifacts # None
              /\ Len(Returned(h).artifacts[1]) \in 1..updates[Returned(h).id]
              /\ \A i \in DOMAIN Returned(h).artifacts[1] :
                    OneTextPart(Returned(h).artifacts[1][i])
    /\ \A h \in Handlers :
          (op[h] = "send" /\ pc[h] = "update_return") =>
              /\ tasks[upd[h].task_id].status.state = "completed"
              /\ Len(ArtifactsOf(upd[h].task_id)) = updates[upd[h].task_id] + 1
              /\ ArtifactsOf(upd[h].task_id)[Len(ArtifactsOf(upd[h].task_id))]
                    = upd[h].artifacts[1][1]

\* The second send-task call on one identifier has returned: two artifacts.
C6_Witness ==
    \E h \in Handlers :
        /\ op[h] = "send"
        /\ response[h].kind = "task"
        /\ Len(Returned(h).artifacts[1]) = 2
        /\ updates[Returned(h).id] = 2

\* The error text invoke makes of the exception of handler h's pipeline.
ErrorText(h) == ErrorPrefix \o pipeline[h].text

\* C7: when the pipeline raised, invoke returned a result with only error
\* set, the update is to status completed with one artifact whose one text
\* part is the error text, and the call ends by returning the task record,
\* completed, that artifact its last.
C7_PipelineErrorIsContent ==
    /\ [](\A h \in Handlers :
            pipeline[h].raised =>
                /\ result[h] = ResearchResult(None, None, Some(ErrorText(h)))
                /\ upd[h] = UpdateArgs(req[h].id, TaskStatus("completed", None),
                                Some(<<Artifact(<<TextPart(ErrorText(h))>>)>>))
                /\ pc[h] \in {"update_acquire", "update_lookup", "update_message",
                              "update_artifacts", "update_return"})
    /\ [][\A h \in Handlers :
            (pipeline[h].raised /\ pc'[h] # pc[h]) =>
                /\ pc'[h] = "idle" => pc[h] = "update_return"
                /\ pc[h] = "update_return" =>
                      /\ response'[h].kind = "task"
                      /\ response'[h].result[1].status.state = "completed"
                      /\ response'[h].result[1].artifacts[1]
                            [Len(response'[h].result[1].artifacts[1])]
                            = Artifact(<<TextPart(ErrorText(h))>>)]_vars

\* A send-task call whose pipeline raised has returned a completed task
\* whose artifact is the error text.
C7_Witness ==
    \E h \in Handlers :
        /\ op[h] = "send"
        /\ pc[h] = "idle"
        /\ response[h].kind = "task"
        /\ Returned(h).status.state = "completed"
        /\ Returned(h).artifacts = Some(<<Artifact(<<TextPart(ErrorPrefix \o Boom)>>)>>)

\* C8: a handler inside agent.invoke does not hold the store lock.
C8_NoLockDuringResearch ==
    \A h \in Handlers : pc[h] = "research" => lock # h

\* While one handler is inside agent.invoke another holds the lock for its
\* own update.
C8_Witness ==
    \E h, g \in Handlers :
        /\ pc[h] = "research"
        /\ lock = g
        /\ pc[g] = "update_artifacts"

\* The artifacts on task t: those of the send-task calls whose update has
\* returned, and that of the one about to return.
CountedArtifacts(t) ==
    updates[t] + Cardinality({h \in Handlers :
                     pc[h] = "update_return" /\ upd[h].task_id = t})

\* C10: a task has as many artifacts as send-task calls on its identifier
\* have performed their store update, none while its status is submitted,
\* and every step leaves the artifacts there are in place, in order.
C10_ArtifactsAppendOnly ==
    /\ [](\A t \in DOMAIN tasks :
            /\ Len(ArtifactsOf(t)) = CountedArtifacts(t)
            /\ tasks[t].status.state = "submitted" => tasks[t].artifacts = None)
    /\ [][\A t \in DOMAIN tasks :
            /\ t \in DOMAIN tasks'
            /\ IsPrefix(ArtifactsOf(t),
                        IF tasks'[t].artifacts = None THEN <<>>
                        ELSE tasks'[t].artifacts[1])]_vars

\* Two send-task calls on one identifier have updated the store: the task
\* has their two artifacts.
C10_Witness ==
    \E t \in DOMAIN tasks :
        /\ updates[t] = 2
        /\ Len(ArtifactsOf(t)) = 2
        /\ lock = 0


\* What a pipeline text is to be parsed into, written without the search
\* and the recursion of the string primitives above.
MarkerPositions(text) ==
    {i \in 1..(Len(text) - 7) : SubSeq(text, i, i + 7) = Marker}

FirstMarker(text) ==
    CHOOSE i \in MarkerPositions(text) : \A j \in MarkerPositions(text) : i <= j

Blank(s) == \A i \in DOMAIN s : s[i] \in Whitespace

\* s without the whitespace at its two ends.
Trimmed(s) ==
    IF Blank(s) THEN <<>>
    ELSE LET inked == {i \in DOMAIN s : s[i] \notin Whitespace}
             first == CHOOSE i \in inked : \A j \in inked : i <= j
             last == CHOOSE i \in inked : \A j \in inked : j <= i
         IN  [k \in 1..(last - first + 1) |-> s[first + k - 1]]

\* The places that end a line of s: its newlines, and one past its end.
LineEnds(s) == {i \in DOMAIN s : s[i] = "\n"} \cup {Len(s) + 1}

\* The k-th line of s.
Line(s, k) ==
    LET end == CHOOSE e \in LineEnds(s) :
                   Cardinality({x \in LineEnds(s) : x < e}) = k - 1
        before == {x \in LineEnds(s) : x < end}
        start == IF before = {} THEN 1
                 ELSE 1 + CHOOSE x \in before : \A y \in before : y <= x
    IN  [i \in 1..(end - start) |-> s[start + i - 1]]

NotEmpty(s) == s # <<>>

\* The trimmed non-empty lines of s, in order.
TrimmedLines(s) ==
    SelectSeq([k \in 1..Cardinality(LineEnds(s)) |-> Trimmed(Line(s, k))],
              NotEmpty)

\* C9: invoke on a returned text with the marker gives as content the
\* trimmed text before the first marker and as sources the trimmed
\* non-empty lines of the text after it, in order; on a text without the
\* marker it gives the text itself and no sources; error is unset.
C9_SourcesSplit ==
    parsed # None =>
        LET r == parsed[1]
        IN  /\ r.error = None
            /\ IF MarkerPositions(raw) = {}
               THEN r.content = Some(raw) /\ r.sources = Some(<<>>)
               ELSE LET i == FirstMarker(raw)
                    IN  /\ r.content = Some(Trimmed([k \in 1..(i - 1) |-> raw[k]]))
                        /\ r.sources = Some(TrimmedLines(
                               [k \in 1..(Len(raw) - i - Len(Marker) + 1) |->
                                   raw[i + Len(Marker) + k - 1]]))

\* The text "A B\nSources:\nhttp://x\nhttp://y" was parsed into the content
\* "A B" and the sources "http://x" and "http://y".
C9_Witness ==
    /\ raw = CitedAnswer
    /\ parsed # None
    /\ parsed[1].content = Some(<<"A", " ", "B">>)
    /\ parsed[1].sources =
           Some(<< <<"h", "t", "t", "p", ":", "/", "/", "x">>,
                   <<"h", "t", "t", "p", ":", "/", "/", "y">> >>)

====
